---- MODULE Spec2Model ----
(***************************************************************************)
(* Namespaced state on top of a storage atom (jotai-persist.tsx).          *)
(*                                                                         *)
(* The state container is a tree of JavaScript objects.  Objects live in a *)
(* heap and are named by their index, so that "the very same object" is    *)
(* equality of indices and "the same content" is equality of heap cells.   *)
(* A storage atom holds the index of its current root object.              *)
(***************************************************************************)
EXTENDS Integers, Sequences, FiniteSets, TLC

VARIABLES
    heap,      \* sequence of objects; an object maps property names to values
    store,     \* storage atom -> index of the object it currently holds
    scopes,    \* the NamespaceContext values of the nested providers, outermost
               \* first; scopes[1] is the default value of the context
    prev,      \* heap and store as they were before the last write
    last,      \* the last write: its arguments and what it observed
    written,   \* the locations <<atom, P \o <<K>>>> targeted by writes so far
    chain,     \* the updaters, or the actions, applied one after the other at
               \* a location that no write had targeted before the first
    hook,      \* the hooks of a component that calls useStateNamespaceAtom:
               \* its arguments, useMemoEqual's ref, useMemo's deps and value
    render,    \* the last render of that component: what it read, and the
               \* heap, store and accessor as they were before it
    memo       \* a component that calls useMemoEqual(value, checkEqual):
               \* ref.current, and the last call with what it returned

vars == <<heap, store, scopes, prev, last, written, chain, hook, render, memo>>

----------------------------------------------------------------------------
(* Bounds *)

\* objects a run may allocate (a write allocates Len(P) + 1 of them)
MaxHeap == 6
\* longest explicit namespace path handed to an accessor
MaxPathLen == 2
\* largest number an updater is allowed to produce
MaxNum == 3
\* providers a run may mount
MaxScopes == 2
\* providers around the component whose renders are followed
MaxRenderScopes == 1
\* re-renders of that component
MaxRenders == 1

----------------------------------------------------------------------------
(* JavaScript values *)

Undef      == [t |-> "undef", n |-> 0, s |-> ""]
Null       == [t |-> "null",  n |-> 0, s |-> ""]
Num(i)     == [t |-> "num",   n |-> i, s |-> ""]
Str(x)     == [t |-> "str",   n |-> 0, s |-> x]
NaN        == [t |-> "nan",   n |-> 0, s |-> ""]
\* a reference to heap[i]; i = 0 is the literal {} of an expression `x || {}`,
\* an empty object that no container ever holds
ObjRef(i)  == [t |-> "obj",   n |-> i, s |-> ""]
TempEmpty  == ObjRef(0)

EmptyObj   == [x \in {} |-> Undef]

IsObj(v)     == v.t = "obj"
\* an object of either kind (a node of the heap or a reducer state)
IsContainer(v) == v.t \in {"obj", "state"}
IsNullish(v) == v.t \in {"undef", "null"}

\* ToBoolean
Truthy(v) ==
    CASE v.t = "undef" -> FALSE
      [] v.t = "null"  -> FALSE
      [] v.t = "num"   -> v.n # 0
      [] v.t = "str"   -> v.s # ""
      [] v.t = "nan"   -> FALSE
      [] OTHER         -> TRUE

\* a || b
Or(a, b) == IF Truthy(a) THEN a ELSE b

\* a ?? b
Coalesce(a, b) == IF IsNullish(a) THEN b ELSE a

\* the own enumerable properties of a one-character-at-most string
StrOwn(x) == IF x = "" THEN EmptyObj ELSE [i \in {"0"} |-> Str(x)]

\* a reducer state { value: x }, x a number or NaN: an object that no write
\* looks into, kept as a value (which object it is plays no part)
CounterState(x) == [t |-> "state", n |-> x.n, s |-> x.t]
StateValue(v)   == IF v.s = "nan" THEN NaN ELSE Num(v.n)

\* the own enumerable properties of v, as { ...v } copies them
Spread(h, v) ==
    CASE v.t = "obj" -> (IF v.n = 0 THEN EmptyObj ELSE h[v.n])
      [] v.t = "str" -> StrOwn(v.s)
      [] v.t = "state" -> [x \in {"value"} |-> StateValue(v)]
      [] OTHER       -> EmptyObj

\* v[name] for a v that is neither null nor undefined
Prop(h, v, name) ==
    CASE v.t = "obj" ->
            (IF name \in DOMAIN Spread(h, v) THEN Spread(h, v)[name] ELSE Undef)
      [] v.t = "str" ->
            (IF name = "length" THEN Num(IF v.s = "" THEN 0 ELSE 1)
             ELSE IF name \in DOMAIN StrOwn(v.s) THEN StrOwn(v.s)[name]
             ELSE Undef)
      [] v.t = "state" -> (IF name = "value" THEN StateValue(v) ELSE Undef)
      [] OTHER -> Undef

\* { ...o, [name]: v } as a property map
Assign(o, name, v) ==
    [x \in (DOMAIN o) \cup {name} |-> IF x = name THEN v ELSE o[x]]

\* a newly created object with properties o
Alloc(h, o) == [heap |-> Append(h, o), val |-> ObjRef(Len(h) + 1)]

----------------------------------------------------------------------------
(* Input sets *)

Atoms  == {"root", "A", "B"}
Segs   == {"a", "b"}
Keys   == {"a", "count"}
Values == {Null, Num(0), Str("x")}
Defaults == {Num(0), Num(1)}
Updaters == {"inc", "same"}
Actions  == {"INCREMENT", "DECREMENT"}
InitialStates == {CounterState(Num(0))}

RECURSIVE SeqsUpTo(_, _)
SeqsUpTo(S, n) ==
    IF n = 0 THEN {<<>>}
    ELSE LET R == SeqsUpTo(S, n - 1)
         IN  R \cup {Append(p, x) : p \in {q \in R : Len(q) = n - 1}, x \in S}

Paths == SeqsUpTo(Segs, MaxPathLen)

IsPrefix(p, q) == Len(p) <= Len(q) /\ SubSeq(q, 1, Len(p)) = p

\* the caller's updater functions:  c => c + 1 (on a number)  and  c => c
ApplyUpdater(f, v) == IF f = "inc" THEN Num(v.n + 1) ELSE v

\* v + k for a number k: undefined + k and NaN + k are NaN, null + k is k
\* (a string or an object would be concatenated: no container of the model
\* holds one under the name "value")
Plus(v, k) ==
    CASE v.t = "num"  -> Num(v.n + k)
      [] v.t = "null" -> Num(k)
      [] OTHER        -> NaN

\* the caller's reducer
counterReducer(h, state, action) ==
    CASE action = "INCREMENT" -> CounterState(Plus(Prop(h, state, "value"), 1))
      [] action = "DECREMENT" -> CounterState(Plus(Prop(h, state, "value"), -1))
      [] OTHER                -> state

----------------------------------------------------------------------------
(* createNamespacedAtom: the read and the write of an accessor *)

RECURSIVE Descend(_, _, _)
Descend(h, state, path) ==
    IF path = <<>> THEN state
    ELSE Descend(h, Or(Prop(h, state, Head(path)), TempEmpty), Tail(path))

\* a read that looks the key up in the root, whatever the path
ReadIgnoresPath(h, root, path, key, defaultValue) ==
    Coalesce(Prop(h, ObjRef(root), key), defaultValue)

Read(h, root, path, key, defaultValue) ==
    Coalesce(Prop(h, Descend(h, ObjRef(root), path), key), defaultValue)

\* a write that builds each node from the written entry alone
RECURSIVE setDeepValueNoSpread(_, _, _, _, _)
setDeepValueNoSpread(h, obj, keys, key, value) ==
    IF keys = <<>>
    THEN Alloc(h, Assign(Spread(h, obj), key, value))
    ELSE LET first == Head(keys)
             rest  == Tail(keys)
             r == setDeepValueNoSpread(h, Or(Prop(h, obj, first), TempEmpty),
                                       rest, key, value)
         IN  Alloc(r.heap, Assign(EmptyObj, first, r.val))

\* a write that builds the final node from the written entry alone
RECURSIVE setDeepValueLeafOnly(_, _, _, _, _)
setDeepValueLeafOnly(h, obj, keys, key, value) ==
    IF keys = <<>>
    THEN Alloc(h, Assign(EmptyObj, key, value))
    ELSE LET first == Head(keys)
             rest  == Tail(keys)
             r == setDeepValueLeafOnly(h, Or(Prop(h, obj, first), TempEmpty),
                                       rest, key, value)
         IN  Alloc(r.heap, Assign(Spread(h, obj), first, r.val))

\* a write that works on a deep clone of the container
RECURSIVE DeepClone(_, _)
RECURSIVE CloneProps(_, _, _, _)
CloneProps(h, o, ks, acc) ==
    IF ks = {} THEN [heap |-> h, obj |-> acc]
    ELSE LET k == CHOOSE x \in ks : TRUE
             r == DeepClone(h, o[k])
         IN  CloneProps(r.heap, o, ks \ {k}, Assign(acc, k, r.val))
DeepClone(h, v) ==
    IF ~IsObj(v) \/ v.n = 0 THEN [heap |-> h, val |-> v]
    ELSE LET r == CloneProps(h, h[v.n], DOMAIN h[v.n], EmptyObj)
         IN  Alloc(r.heap, r.obj)
RECURSIVE setDeepValueDeepClone(_, _, _, _, _)
setDeepValueDeepClone(h, obj, keys, key, value) ==
    LET o    == Spread(h, obj)
        step == IF keys = <<>> THEN key ELSE Head(keys)
        c    == CloneProps(h, o, (DOMAIN o) \ {step}, EmptyObj)
    IN  IF keys = <<>>
        THEN Alloc(c.heap, Assign(c.obj, key, value))
        ELSE LET r == setDeepValueDeepClone(c.heap,
                          Or(Prop(h, obj, step), TempEmpty), Tail(keys), key, value)
             IN  Alloc(r.heap, Assign(c.obj, step, r.val))

\* a write that returns the container it was given when the location already
\* holds the value
RECURSIVE setDeepValueSkipEqual(_, _, _, _, _)
setDeepValueSkipEqual(h, obj, keys, key, value) ==
    IF IsObj(obj) /\ Prop(h, Descend(h, obj, keys), key) = value
    THEN [heap |-> h, val |-> obj]
    ELSE IF keys = <<>>
    THEN Alloc(h, Assign(Spread(h, obj), key, value))
    ELSE LET first == Head(keys)
             rest  == Tail(keys)
             r == setDeepValueSkipEqual(h, Or(Prop(h, obj, first), TempEmpty),
                                        rest, key, value)
         IN  Alloc(r.heap, Assign(Spread(h, obj), first, r.val))

RECURSIVE setDeepValue(_, _, _, _, _)
setDeepValue(h, obj, keys, key, value) ==
    IF keys = <<>>
    THEN Alloc(h, Assign(Spread(h, obj), key, value))
    ELSE LET first == Head(keys)
             rest  == Tail(keys)
             r == setDeepValue(h, Or(Prop(h, obj, first), TempEmpty),
                               rest, key, value)
         IN  Alloc(r.heap, Assign(Spread(h, obj), first, r.val))

----------------------------------------------------------------------------
(* Scopes and accessors *)

\* A context value is { namespace, namespaceAtom }.  The model keeps with it
\* the scope that rendered the provider (parent, 0 for none) and the props the
\* provider was given.
NoProp == [given |-> FALSE, seg |-> ""]
NamespaceProp(seg) == [given |-> TRUE, seg |-> seg]

\* createContext's default value
DefaultContext ==
    [namespace |-> <<>>, namespaceAtom |-> "root",
     parent |-> 0, namespaceProp |-> NoProp, rootAtomProp |-> ""]

\* the props a provider may be given: namespace is undefined, "" or a segment,
\* rootAtom is undefined ("") or a storage atom
NamespaceProps == {NoProp, NamespaceProp(""), NamespaceProp("a"), NamespaceProp("b")}
RootAtomProps  == {"", "A", "B"}
RelPaths       == {<<>>, <<"b">>}

\* a provider that falls back to the default container, not to its parent's
ProviderAtomFromDefault(parentContext, namespace, rootAtom) ==
    LET isRootNamespace == Len(parentContext.namespace) = 0
    IN  IF isRootNamespace /\ rootAtom # "" THEN rootAtom
        ELSE DefaultContext.namespaceAtom

\* a provider that takes the declared container only while that container
\* is empty
ProviderAtomWhileEmpty(parentContext, namespace, rootAtom) ==
    LET isRootNamespace == Len(parentContext.namespace) = 0
    IN  IF isRootNamespace /\ rootAtom # "" /\ heap[store[rootAtom]] = EmptyObj
        THEN rootAtom
        ELSE parentContext.namespaceAtom

\* StateNamespaceProvider: the namespaceAtom it provides
ProviderAtom(parentContext, namespace, rootAtom) ==
    LET isRootNamespace == Len(parentContext.namespace) = 0
    IN  IF isRootNamespace /\ rootAtom # "" THEN rootAtom
        ELSE parentContext.namespaceAtom

\* a provider that puts its segment in front of the parent's path
ProviderNamespacePrepend(parentContext, namespace) ==
    IF namespace.given /\ namespace.seg # ""
    THEN <<namespace.seg>> \o parentContext.namespace
    ELSE parentContext.namespace

\* StateNamespaceProvider: the namespace it provides (a string prop is
\* truthy when it is given and not empty)
ProviderNamespace(parentContext, namespace) ==
    IF namespace.given /\ namespace.seg # ""
    THEN Append(parentContext.namespace, namespace.seg)
    ELSE parentContext.namespace

\* the context value StateNamespaceProvider provides to its children
StateNamespaceProvider(parentContext, parent, namespace, rootAtom) ==
    [namespace     |-> ProviderNamespace(parentContext, namespace),
     namespaceAtom |-> ProviderAtom(parentContext, namespace, rootAtom),
     parent |-> parent, namespaceProp |-> namespace, rootAtomProp |-> rootAtom]

\* the namespace argument of useStateNamespaceAtom: null or { path }
NoNamespace     == [isNull |-> TRUE,  path |-> <<>>]
Namespace(p)    == [isNull |-> FALSE, path |-> p]

\* useStateNamespace(additionalPath) called under `context`
useStateNamespace(context, additionalPath) ==
    Namespace(context.namespace \o additionalPath)

\* a resolution that takes an empty path for no path
ResolvePathEmptyIsAmbient(ns, context) ==
    IF ns.isNull \/ ns.path = <<>> THEN context.namespace ELSE ns.path

\* namespace?.path || context.namespace  (an array is truthy, empty or not)
ResolvePath(ns, context) ==
    IF ns.isNull THEN context.namespace ELSE ns.path

\* an array of strings: its identity and its elements
StringArray(id, segs) == [id |-> id, segs |-> segs]

\* the accessor atom createNamespacedAtom(storageAtom, path, key, defaultValue)
\* returns: its identity and the arguments its read and write close over
createNamespacedAtom(id, storageAtom, path, key, defaultValue) ==
    [id |-> id, storageAtom |-> storageAtom, path |-> path, key |-> key,
     defaultValue |-> defaultValue]

NoAccessor == createNamespacedAtom(0, "", <<>>, "", Undef)

NoHook == [mounted |-> FALSE, scope |-> 0, ambient |-> FALSE, rel |-> <<>>,
           key |-> "", def |-> Undef,
           ref |-> StringArray(0, <<>>),
           deps |-> <<"", 0, "", Undef>>,
           accessor |-> NoAccessor, ids |-> 0]

\* again: useAtom was handed another atom than in the render before, so it
\* has scheduled one more render of the component
NoRender == [n |-> 0, value |-> Undef, remount |-> FALSE, again |-> FALSE]

\* no component has called useMemoEqual
NoMemo == [mounted |-> FALSE, checkEqual |-> "", value |-> Undef,
           before |-> Undef, ref |-> Undef, ret |-> Undef]

NoChain == [loc |-> <<>>, def |-> Undef, fs |-> <<>>, kind |-> "",
            untouched |-> FALSE]

NoWrite == [by |-> "", given |-> NoNamespace,
            scope |-> 0, rel |-> <<>>, ambient |-> FALSE,
            atom |-> "", path |-> <<>>, key |-> "", def |-> Undef,
            kind |-> "", arg |-> "", observed |-> Undef, value |-> Undef]

\* What the storage atoms hold when the application starts: every container
\* is empty, or the "root" container is what an earlier session persisted:
\* the empty container after write(<<"a">>, "count", 2), or after
\* write(<<>>, "a", "x").
FreshHeap == <<EmptyObj, EmptyObj, EmptyObj>>
PersistedCounter ==
    [heap |-> <<[x \in {"a"} |-> ObjRef(4)], EmptyObj, EmptyObj,
                [x \in {"count"} |-> Num(2)]>>,
     written |-> {<<"root", <<"a", "count">>>>}]
PersistedString ==
    [heap |-> <<[x \in {"a"} |-> Str("x")], EmptyObj, EmptyObj>>,
     written |-> {<<"root", <<"a">>>>}]

Init ==
    /\ \/ heap = FreshHeap /\ written = {}
       \/ \E c \in {PersistedCounter, PersistedString} :
             heap = c.heap /\ written = c.written
    /\ store = [a \in Atoms |-> CASE a = "root" -> 1 [] a = "A" -> 2 [] a = "B" -> 3]
    /\ scopes = <<DefaultContext>>
    /\ prev = [heap |-> heap, store |-> store]
    /\ last = NoWrite
    /\ chain = NoChain
    /\ hook = NoHook
    /\ render = NoRender
    /\ memo = NoMemo

\* no write targeted loc, a location below it or a location above it
Untouched(atom, loc) ==
    \A w \in written :
        w[1] = atom => ~IsPrefix(w[2], loc) /\ ~IsPrefix(loc, w[2])

\* the run of updater writes, or of dispatches, that this write starts,
\* continues or ends
NextChain(atom, path, key, d, kind, f) ==
    LET loc == <<atom, Append(path, key)>>
    IN  IF kind = "value" THEN NoChain
        ELSE IF /\ chain.fs # <<>> /\ chain.kind = kind
                /\ chain.loc = loc /\ chain.def = d
             THEN [chain EXCEPT !.fs = Append(@, f)]
        ELSE IF loc \notin written
             THEN [loc |-> loc, def |-> d, fs |-> <<f>>, kind |-> kind,
                   untouched |-> Untouched(atom, loc[2])]
        ELSE NoChain

\* an updater that is handed the default, whatever the container holds
CurrentValueDefault(storageAtom, path, key, defaultValue) == defaultValue

\* an updater that is handed the value of the container before the last write
CurrentValueStale(storageAtom, path, key, defaultValue) ==
    Read(prev.heap, prev.store[storageAtom], path, key, defaultValue)

\* get(baseAtom) in the write function: the accessor's value now
CurrentValue(storageAtom, path, key, defaultValue) ==
    Read(heap, store[storageAtom], path, key, defaultValue)

\* a write function whose dispatch stores the state it read, the reducer
\* never applied
NewValueReducerSkipped(kind, arg, v, currentValue) ==
    CASE kind = "value"    -> v
      [] kind = "updater"  -> ApplyUpdater(arg, currentValue)
      [] kind = "dispatch" -> currentValue

\* what the write function of an accessor atom computes from the value it read
NewValue(kind, arg, v, currentValue) ==
    CASE kind = "value"    -> v
      [] kind = "updater"  -> ApplyUpdater(arg, currentValue)
      [] kind = "dispatch" -> counterReducer(heap, currentValue, arg)

\* A component rendered under scopes[scope] calls useStateNamespaceAtom (or
\* useStateNamespaceReducerAtom) with the namespace argument ns, null or a
\* namespace object, and then calls the setter it got.  The write function
\* of the accessor atom: get(baseAtom), then set(storageAtom, ...)
WriteNamespace(scope, ns, rel, ambient, key, defaultValue, kind, arg, v) ==
    LET context      == scopes[scope]
        storageAtom  == context.namespaceAtom
        path         == ResolvePath(ns, context)
        currentValue == CurrentValue(storageAtom, path, key, defaultValue)
        newValue     == NewValue(kind, arg, v, currentValue)
        r == setDeepValue(heap, ObjRef(store[storageAtom]), path, key, newValue)
    IN  /\ Len(heap) + Len(path) + 1 <= MaxHeap
        /\ kind = "updater" /\ arg = "inc" =>
              /\ currentValue.t = "num"
              /\ newValue.n \in 0..MaxNum
        /\ kind = "dispatch" => newValue.n \in 0..MaxNum
        /\ heap' = r.heap
        /\ store' = [store EXCEPT ![storageAtom] = r.val.n]
        /\ prev' = [heap |-> heap, store |-> store]
        /\ last' = [by |-> "setDeepValue", given |-> ns,
                    scope |-> scope, rel |-> rel, ambient |-> ambient,
                    atom |-> storageAtom, path |-> path, key |-> key,
                    def |-> IF kind = "value" THEN Undef ELSE defaultValue,
                    kind |-> kind, arg |-> arg,
                    observed |-> IF kind = "value" THEN Undef ELSE currentValue,
                    value |-> newValue]
        /\ written' = written \cup {<<storageAtom, Append(path, key)>>}
        /\ chain' = NextChain(storageAtom, path, key, defaultValue, kind, arg)
        /\ UNCHANGED <<scopes, hook, render, memo>>

\* the namespace argument is null (ambient) or useStateNamespace(rel)
WriteAtom(scope, rel, ambient, key, defaultValue, kind, arg, v) ==
    WriteNamespace(scope,
                   IF ambient THEN NoNamespace
                   ELSE useStateNamespace(scopes[scope], rel),
                   rel, ambient, key, defaultValue, kind, arg, v)

\* setter(value) of useStateNamespaceAtom(useStateNamespace(p), key, d),
\* called outside every provider
SetValue ==
    \E p \in Paths, key \in Keys, d \in Defaults, v \in Values :
        WriteAtom(1, p, FALSE, key, d, "value", "", v)

\* setter(c => c + 1) or setter(c => c) of useStateNamespaceAtom({ path: p }, key, d)
SetUpdater ==
    \E p \in Paths, key \in Keys, d \in Defaults, f \in Updaters :
        WriteAtom(1, p, FALSE, key, d, "updater", f, Undef)

\* dispatch(action) of useStateNamespaceReducerAtom({ path: p }, key, reducer, s0)
Dispatch ==
    \E p \in Paths, key \in Keys, s0 \in InitialStates, action \in Actions :
        WriteAtom(1, p, FALSE, key, s0, "dispatch", action, Undef)

Next == SetValue \/ SetUpdater \/ Dispatch

Spec == Init /\ [][Next]_vars

\* the writes of fixed values alone
NextValues == SetValue

SpecValues == Init /\ [][NextValues]_vars

----------------------------------------------------------------------------
(* Providers *)

\* a StateNamespaceProvider is rendered inside the innermost scope: scopes is
\* a chain of nested providers below the default context
Mount ==
    /\ Len(scopes) < MaxScopes + 1
    /\ \E namespace \in NamespaceProps, rootAtom \in RootAtomProps :
          scopes' = Append(scopes,
                           StateNamespaceProvider(scopes[Len(scopes)], Len(scopes),
                                                  namespace, rootAtom))
    /\ UNCHANGED <<heap, store, prev, last, written, chain, hook, render, memo>>

\* setter(c => c + 1) of useStateNamespaceAtom(null, "count", 0) or of
\* useStateNamespaceAtom(useStateNamespace(rel), "count", 0) under a scope
ScopedIncrement ==
    \E scope \in 1..Len(scopes), rel \in RelPaths, ambient \in BOOLEAN :
        /\ ambient => rel = <<>>
        /\ WriteAtom(scope, rel, ambient, "count", Num(0), "updater", "inc", Undef)

\* the paths of the namespace objects a component is handed
ExplicitPaths == {<<>>, <<"b">>}

\* setter(c => c + 1) of useStateNamespaceAtom({ path: p }, "count", 0) under a
\* scope, the namespace object being one the component was handed: made by
\* useStateNamespace elsewhere in the tree, or written out
ScopedIncrementAt ==
    \E scope \in 1..Len(scopes), p \in ExplicitPaths :
        WriteNamespace(scope, Namespace(p), p, FALSE, "count", Num(0),
                       "updater", "inc", Undef)

InitScopes == Init /\ heap = FreshHeap

NextScopes == Mount \/ ScopedIncrement

SpecScopes == InitScopes /\ [][NextScopes]_vars

NextNamespaces == Mount \/ ScopedIncrement \/ ScopedIncrementAt

SpecNamespaces == InitScopes /\ [][NextNamespaces]_vars

----------------------------------------------------------------------------
(* useStateNamespaceAtom: the renders of a component *)

\* the props of the providers around the component
RenderNamespaceProps == {NoProp, NamespaceProp("a")}
RenderRootAtomProps  == {"", "A"}

compareStringArrays(a, b) ==
    /\ Len(a) = Len(b)
    /\ \A i \in 1..Len(a) : a[i] = b[i]

\* a useMemoEqual that compares by reference only
useMemoEqualByReference(ref, value) ==
    IF value.id = ref.id THEN ref ELSE value

\* useMemoEqual(value, compareStringArrays) with ref.current = ref: the new
\* ref.current, which is also what the hook returns
useMemoEqual(ref, value) ==
    LET isEqual == \/ value.id = ref.id
                   \/ compareStringArrays(value.segs, ref.segs)
    IN  IF isEqual THEN ref ELSE value

\* a read function that stores the default it returns
ReadAtomStoresDefault(accessor) ==
    LET val == Read(heap, store[accessor.storageAtom], accessor.path,
                    accessor.key, accessor.defaultValue)
        found == Prop(heap, Descend(heap, ObjRef(store[accessor.storageAtom]),
                                    accessor.path), accessor.key)
        r == setDeepValue(heap, ObjRef(store[accessor.storageAtom]),
                          accessor.path, accessor.key, val)
    IN  IF IsNullish(found)
        THEN [heap |-> r.heap,
              store |-> [store EXCEPT ![accessor.storageAtom] = r.val.n],
              val |-> val]
        ELSE [heap |-> heap, store |-> store, val |-> val]

\* a read function whose state belongs to the accessor instance: an accessor
\* created by a later render starts from a container of its own
ReadAtomOwnState(accessor) ==
    [heap |-> heap, store |-> store,
     val |-> Read(heap, store[IF accessor.id <= 2 THEN accessor.storageAtom ELSE "B"],
                  accessor.path, accessor.key, accessor.defaultValue)]

\* the read function of an accessor atom, as useAtom runs it during a
\* render: the value it returns, and the heap and store it leaves
ReadAtom(accessor) ==
    [heap |-> heap, store |-> store,
     val |-> Read(heap, store[accessor.storageAtom], accessor.path,
                  accessor.key, accessor.defaultValue)]

\* One run of the hooks of useStateNamespaceAtom(namespace, key, def) under
\* `context`, namespace being null (ambient) or useStateNamespace(rel).  The
\* array handed to useMemoEqual is a new one (fresh) or the one ref.current
\* holds; first is the render that mounts the component.
RunHooks(h, context, scope, ambient, rel, key, def, fresh, first) ==
    LET ns    == IF ambient THEN NoNamespace ELSE useStateNamespace(context, rel)
        value == StringArray(IF fresh \/ first THEN h.ids + 1 ELSE h.ref.id,
                             ResolvePath(ns, context))
        path  == IF first THEN value ELSE useMemoEqual(h.ref, value)
        deps  == <<context.namespaceAtom, path.id, key, def>>
    IN  [mounted |-> TRUE, scope |-> scope, ambient |-> ambient, rel |-> rel,
         key |-> key, def |-> def,
         ref |-> path,
         deps |-> deps,
         accessor |-> IF first \/ deps # h.deps
                      THEN createNamespacedAtom(h.ids + 2, context.namespaceAtom,
                                                path.segs, key, def)
                      ELSE h.accessor,
         ids |-> h.ids + 2]

\* the contexts of a chain of providers given props[i] = <<namespace, rootAtom>>
RECURSIVE RenderTree(_, _)
RenderTree(props, n) ==
    IF n = 1 THEN <<DefaultContext>>
    ELSE LET above == RenderTree(props, n - 1)
         IN  Append(above, StateNamespaceProvider(above[n - 1], n - 1,
                                                  props[n][1], props[n][2]))

PropsOf(ctxs) == [i \in 2..Len(ctxs) |-> <<ctxs[i].namespaceProp, ctxs[i].rootAtomProp>>]

\* a provider is rendered around the place where the component will be
MountAround ==
    /\ ~hook.mounted
    /\ Len(scopes) < MaxRenderScopes + 1
    /\ \E namespace \in RenderNamespaceProps, rootAtom \in RenderRootAtomProps :
          scopes' = Append(scopes,
                           StateNamespaceProvider(scopes[Len(scopes)], Len(scopes),
                                                  namespace, rootAtom))
    /\ UNCHANGED <<heap, store, prev, last, written, chain, hook, render, memo>>

\* what a render leaves: the hooks have run and useAtom has read the accessor
Rendered(h, n, remount) ==
    LET r == ReadAtom(h.accessor)
    IN  /\ hook' = h
        /\ heap' = r.heap
        /\ store' = r.store
        /\ render' = [n |-> n, value |-> r.val, remount |-> remount,
                      again |-> /\ hook.mounted /\ ~remount
                                /\ h.accessor.id # hook.accessor.id]
        /\ UNCHANGED <<prev, last, written, chain, memo>>

\* the component is rendered for the first time, inside the innermost provider
UseAtom ==
    /\ ~hook.mounted
    /\ \E ambient \in BOOLEAN, rel \in RelPaths, key \in Keys, def \in Defaults :
          /\ ambient => rel = <<>>
          /\ Rendered(RunHooks(hook, scopes[Len(scopes)], Len(scopes),
                               ambient, rel, key, def, TRUE, TRUE),
                      1, FALSE)
    /\ UNCHANGED scopes

\* The tree is rendered again: every provider with the props `props`, then
\* the component with the arguments it passes now.  The array the component
\* hands to useMemoEqual is a new one, unless it is the context's and that
\* is still the one ref.current holds.  With remount the component is a new
\* instance (its hooks start anew).
RenderAgain(props, ambient, rel, key, def, fresh, remount) ==
    LET tree == RenderTree(props, Len(scopes))
    IN  /\ hook.mounted
        /\ render.n < MaxRenders + 1
        /\ ambient => rel = <<>>
        /\ ~fresh => /\ ambient /\ hook.ambient
                     /\ tree[Len(scopes)].namespace = hook.ref.segs
        /\ scopes' = tree
        /\ Rendered(RunHooks(hook, tree[Len(scopes)], Len(scopes),
                             ambient, rel, key, def, fresh, remount),
                    render.n + 1, remount)

\* rerender(<the same tree>): same props, same arguments
Rerender ==
    \E fresh \in BOOLEAN, remount \in BOOLEAN :
        RenderAgain(PropsOf(scopes), hook.ambient, hook.rel, hook.key, hook.def,
                    fresh, remount)

\* the component is rendered with other arguments
RerenderWith ==
    \E ambient \in BOOLEAN, rel \in RelPaths, key \in Keys, def \in Defaults :
        /\ <<ambient, rel, key, def>> # <<hook.ambient, hook.rel, hook.key, hook.def>>
        /\ RenderAgain(PropsOf(scopes), ambient, rel, key, def, TRUE, FALSE)

\* a provider is rendered with another rootAtom prop
RerenderRoot ==
    \E i \in 2..Len(scopes), rootAtom \in RenderRootAtomProps :
        /\ rootAtom # scopes[i].rootAtomProp
        /\ RenderAgain([PropsOf(scopes) EXCEPT ![i] = <<@[1], rootAtom>>],
                       hook.ambient, hook.rel, hook.key, hook.def, TRUE, FALSE)

\* the component calls the setter it got from the hook: setCount(c => c + 1)
HookSet ==
    /\ hook.mounted
    /\ WriteAtom(hook.scope, hook.rel, hook.ambient, hook.key, hook.def,
                 "updater", "inc", Undef)

\* the render useAtom scheduled: the component alone runs again, with the
\* arguments of the render before; the array it hands to useMemoEqual is a
\* new one unless it is the context's
ScheduledRender ==
    /\ hook.mounted /\ render.again
    /\ \E fresh \in BOOLEAN :
          /\ ~fresh => /\ hook.ambient
                       /\ scopes[Len(scopes)].namespace = hook.ref.segs
          /\ Rendered(RunHooks(hook, scopes[Len(scopes)], Len(scopes),
                               hook.ambient, hook.rel, hook.key, hook.def,
                               fresh, FALSE),
                      render.n, FALSE)
    /\ UNCHANGED scopes

NextRender ==
    \/ MountAround \/ UseAtom \/ Rerender \/ RerenderWith \/ RerenderRoot
    \/ HookSet \/ ScheduledRender

SpecRender == InitScopes /\ [][NextRender]_vars

----------------------------------------------------------------------------
(* What the properties read *)

\* names a read may use: the written ones, and the properties of a string
ReadKeys     == Keys \cup {"0", "length"}
ReadPaths    == Paths \cup {Append(p, "0") : p \in {q \in Paths : Len(q) < MaxPathLen}}
ReadDefaults == {Num(1), Null}

Unrelated(p, q) == ~IsPrefix(p, q) /\ ~IsPrefix(q, p)

\* read(P, K, d) on the container of the last write, after and before it
ReadNow(p, k, d)    == Read(heap, store[last.atom], p, k, d)
ReadBefore(p, k, d) == Read(prev.heap, prev.store[last.atom], p, k, d)

Wrote == last.kind # ""

----------------------------------------------------------------------------
(* C1 *)

\* C1: immediately after write(P, K, V), read(P, K, d) returns V for every
\* default d, for every storable V, null included.
RoundTrip ==
    Wrote => \A d \in ReadDefaults :
                ReadNow(last.path, last.key, d) = last.value

----------------------------------------------------------------------------
(* C2 *)

\* C2: starting from the empty container, after writes none of which targeted
\* the pair (P, K), read(P, K, d) returns d.
NeverWrittenReadsDefault ==
    Wrote => \A p \in ReadPaths, k \in ReadKeys, d \in ReadDefaults :
        <<"root", Append(p, k)>> \notin written
            => Read(heap, store["root"], p, k, d) = d

\* C2 (amended): after writes none of which targeted P ++ [K], a location
\* below it or a location above it, read(P, K, d) returns d.
UntouchedReadsDefault ==
    \A p \in ReadPaths, k \in ReadKeys :
        Untouched("root", Append(p, k))
            => \A d \in ReadDefaults : Read(heap, store["root"], p, k, d) = d

\* a read that descends into an existing node and misses its key there
UntouchedReadsDefaultWitness ==
    \E p \in ReadPaths, k \in ReadKeys :
        /\ Wrote
        /\ Len(p) = 2
        /\ Untouched("root", Append(p, k))
        /\ IsObj(Prop(heap, ObjRef(store["root"]), p[1]))
        /\ ~IsObj(Descend(heap, ObjRef(store["root"]), p)) \/
             Descend(heap, ObjRef(store["root"]), p) = TempEmpty
        /\ Read(heap, store["root"], p, k, Num(1)) = Num(1)

----------------------------------------------------------------------------
(* C3 *)

\* C3: a write at (P1, K1), by value, updater or dispatch, leaves
\* read(P2, K2, d) unchanged for every P2 such that neither of P1, P2 is a
\* prefix of the other, every K2 and every d.
Isolation ==
    Wrote => \A p2 \in ReadPaths :
                Unrelated(last.path, p2)
                    => \A k2 \in ReadKeys, d \in ReadDefaults :
                          ReadNow(p2, k2, d) = ReadBefore(p2, k2, d)

\* two sibling counters: the second one is incremented by an updater (or a
\* dispatch) while the first one holds its own count
IsolationWitness(kind) ==
    /\ last.kind = kind
    /\ last.path = <<"b">> /\ last.key = "count" /\ last.value = Num(2)
    /\ ReadNow(<<"a">>, "count", Num(0)) = Num(2)
    /\ ReadBefore(<<"a">>, "count", Num(0)) = Num(2)

IsolationUpdaterWitness == IsolationWitness("updater")

----------------------------------------------------------------------------
(* C4 *)

ProperPrefix(p, q) == IsPrefix(p, q) /\ p # q

\* a write at (P, K) leaves read(P ++ Q, K', d) unchanged, Q non-empty
ParentWriteKeepsChild(clash(_, _, _)) ==
    \A q \in ReadPaths :
        ProperPrefix(last.path, q) /\ ~clash(last.path, last.key, q)
            => \A k \in ReadKeys, d \in ReadDefaults :
                  ReadNow(q, k, d) = ReadBefore(q, k, d)

\* a write at (P ++ Q, K') leaves read(P, K, d) unchanged, Q non-empty
ChildWriteKeepsParent(clash(_, _, _)) ==
    \A p \in ReadPaths :
        ProperPrefix(p, last.path)
            => \A k \in ReadKeys, d \in ReadDefaults :
                  ~clash(p, k, last.path)
                     => ReadNow(p, k, d) = ReadBefore(p, k, d)

NoClash(p, k, q) == FALSE

KeyIsChild(p, k, q) == k = q[Len(p) + 1]

\* ... or the node at P is a string, which the write below it replaces
KeyIsChildOrOfString(p, k, q) ==
    \/ KeyIsChild(p, k, q)
    \/ Descend(prev.heap, ObjRef(prev.store[last.atom]), p).t = "str"

----------------------------------------------------------------------------
(* The container as a tree *)

Names == Segs \cup Keys \cup {"0"}
Locs  == SeqsUpTo(Names, MaxPathLen + 1)

\* the value at location loc of the tree below v: internal nodes are
\* objects, anything else is a leaf and has nothing below it
RECURSIVE TreeAt(_, _, _)
TreeAt(h, v, loc) ==
    IF loc = <<>> THEN v
    ELSE IF ~IsObj(v) THEN Undef
    ELSE TreeAt(h, Prop(h, v, Head(loc)), Tail(loc))

\* the nodes of the tree below v: <<location, object>>
RECURSIVE NodesBelow(_, _, _)
NodesBelow(h, v, loc) ==
    IF ~IsObj(v) \/ v.n = 0 THEN {}
    ELSE {<<loc, v>>} \cup
         UNION {NodesBelow(h, h[v.n][x], Append(loc, x)) : x \in DOMAIN h[v.n]}

After(loc)  == TreeAt(heap, ObjRef(store[last.atom]), loc)
Before(loc) == TreeAt(prev.heap, ObjRef(prev.store[last.atom]), loc)

LastLoc == Append(last.path, last.key)

\* the objects of the heap before the write are still there, unchanged
OldObjectsKept ==
    /\ Len(heap) >= Len(prev.heap)
    /\ \A i \in 1..Len(prev.heap) : heap[i] = prev.heap[i]

IsNew(v) == IsObj(v) /\ v.n > Len(prev.heap)

----------------------------------------------------------------------------
(* C5 *)

\* C5: after write(P, K, V) every subtree of the container that is not a node
\* on the route from the root through P is the very same object as before the
\* write; only the root and the nodes along P are copied.
StructuralSharing ==
    Wrote =>
        /\ OldObjectsKept
        /\ \A n \in 0..Len(last.path) : IsNew(After(SubSeq(last.path, 1, n)))
        /\ \A nd \in NodesBelow(heap, After(<<>>), <<>>) :
              ~IsPrefix(nd[1], last.path) => nd[2] = Before(nd[1])
        /\ \A nd \in NodesBelow(prev.heap, Before(<<>>), <<>>) :
              Unrelated(nd[1], LastLoc) => After(nd[1]) = nd[2]
        /\ Len(heap) = Len(prev.heap) + Len(last.path) + 1

\* a write next to the persisted namespace "a", whose node is still the
\* object it was
StructuralSharingWitness ==
    /\ Wrote /\ last.path = <<"b">>
    /\ IsObj(Before(<<"a">>)) /\ After(<<"a">>) = Before(<<"a">>)
    /\ After(<<"a", "count">>) = Num(2)

----------------------------------------------------------------------------
(* C6 *)

\* the node created for a prefix of P at which the container held nothing
\* holds only the next step of the route
CreatedEmpty(i) ==
    LET loc  == SubSeq(last.path, 1, i)
        step == LastLoc[i + 1]
    IN  IsNullish(Before(loc)) => DOMAIN heap[After(loc).n] = {step}

WriteResultGeneral ==
    /\ After(LastLoc) = last.value
    /\ \A i \in 0..Len(last.path) : IsObj(After(SubSeq(last.path, 1, i)))
    /\ \A i \in 1..Len(last.path) : CreatedEmpty(i)
    /\ \A loc \in Locs : Unrelated(loc, LastLoc) => After(loc) = Before(loc)

WriteResultScenario ==
    /\ prev.heap[prev.store[last.atom]] = EmptyObj
    /\ last.path = <<"a", "b">> /\ last.key = "count" /\ last.value = Num(1)
    => /\ LET root == heap[store[last.atom]]
              a == heap[root["a"].n]
              b == heap[a["b"].n]
          IN  /\ DOMAIN root = {"a"} /\ IsObj(root["a"])
              /\ DOMAIN a = {"b"} /\ IsObj(a["b"])
              /\ b = [x \in {"count"} |-> Num(1)]
       /\ ReadNow(<<"a", "b">>, "count", Num(0)) = Num(1)
       /\ ReadNow(<<"a", "c">>, "count", Num(0)) = Num(0)
       /\ ReadNow(<<>>, "count", Num(0)) = Num(0)

\* C6: write(P, K, V) on container C yields a container that holds V at
\* P ++ [K], has a container node at every prefix of P (created empty where
\* none existed) and agrees with C at every other location; from the empty
\* container write([a,b], count, 1) yields exactly {a:{b:{count:1}}}, and then
\* read([a,b], count, 0) = 1, read([a,c], count, 0) = 0, read([], count, 0) = 0.
WriteResult == Wrote => WriteResultGeneral /\ WriteResultScenario

----------------------------------------------------------------------------
(* C7 *)

RECURSIVE Fold(_, _)
Fold(fs, v) == IF fs = <<>> THEN v ELSE Fold(Tail(fs), ApplyUpdater(Head(fs), v))

Chained == chain.fs # <<>> /\ chain.kind = "updater"

\* C7: starting from a never-written (P, K) with default d, n updater writes
\* f1..fn applied one after the other leave read(P, K, d) = fn(...f1(d)...);
\* two increments yield d + 2.
UpdaterSequence ==
    Chained => ReadNow(last.path, last.key, chain.def) = Fold(chain.fs, chain.def)

\* C7 (amended): the same, starting from a location P ++ [K] such that no
\* write targeted it, a location below it or a location above it.
UpdaterSequenceUntouched ==
    Chained /\ chain.untouched
        => /\ ReadNow(last.path, last.key, chain.def) = Fold(chain.fs, chain.def)
           /\ chain.fs = <<"inc", "inc">>
                 => ReadNow(last.path, last.key, chain.def) = Num(chain.def.n + 2)

\* two increments in a row of a counter that was never written
UpdaterSequenceWitness ==
    /\ Chained /\ chain.untouched /\ chain.fs = <<"inc", "inc">>
    /\ chain.def = Num(1)
    /\ ReadNow(last.path, last.key, Num(0)) = Num(3)

----------------------------------------------------------------------------
(* C8 *)

\* C8: in one write call with an updater, the value passed to the updater is
\* what read(P, K, default) returns on the container that this write then
\* replaces; no other write takes effect between the read and the store.
AtomicReadBeforeWrite ==
    last.kind = "updater" =>
        /\ last.observed = ReadBefore(last.path, last.key, last.def)
        /\ last.value = ApplyUpdater(last.arg, last.observed)
        /\ After(LastLoc) = last.value
        /\ OldObjectsKept
        /\ IsNew(After(<<>>))

\* an increment that observes a value stored by an earlier write
AtomicReadBeforeWriteWitness ==
    /\ last.kind = "updater" /\ last.arg = "inc"
    /\ last.observed = Num(2) /\ last.def = Num(0)
    /\ last.path = <<"a">> /\ last.value = Num(3)

----------------------------------------------------------------------------
(* The nesting of providers *)

Providers == 2..Len(scopes)

\* the providers that enclose provider i
RECURSIVE Ancestors(_)
Ancestors(i) ==
    IF scopes[i].parent <= 1 THEN {}
    ELSE {scopes[i].parent} \cup Ancestors(scopes[i].parent)

Descendants(i) == {k \in Providers : i \in Ancestors(k)}

\* the providers that were given a namespace segment, a root container
HasSegment(i)  == scopes[i].namespaceProp.given /\ scopes[i].namespaceProp.seg # ""
DeclaresRoot(i) == scopes[i].rootAtomProp # ""

\* the segments of the providers around scope i, outermost first
RECURSIVE SegmentsOf(_)
SegmentsOf(i) ==
    IF i <= 1 THEN <<>>
    ELSE SegmentsOf(scopes[i].parent) \o
            (IF HasSegment(i) THEN <<scopes[i].namespaceProp.seg>> ELSE <<>>)

----------------------------------------------------------------------------
(* C9 *)

\* the path an accessor of the last write was to address
Composed ==
    IF last.ambient THEN SegmentsOf(last.scope)
    ELSE SegmentsOf(last.scope) \o last.rel

\* C9: the ambient path inside nested providers is the sequence of their
\* namespace segments, outermost first (root = empty sequence);
\* useStateNamespace(A) returns that path followed by the segments of A; an
\* accessor built from it reads and writes at the composed path.
PathComposition ==
    /\ \A i \in 1..Len(scopes) : scopes[i].namespace = SegmentsOf(i)
    /\ \A i \in 1..Len(scopes), rel \in RelPaths :
          useStateNamespace(scopes[i], rel).path = SegmentsOf(i) \o rel
    /\ Wrote =>
          /\ last.path = Composed
          /\ last.atom = scopes[last.scope].namespaceAtom
          /\ After(Append(Composed, last.key)) = last.value
          /\ ReadNow(Composed, last.key, Null) = last.value

\* a counter under useStateNamespace(["b"]), two providers deep, the outer
\* one with the segment "a" and the inner one without a segment
PathCompositionWitness ==
    /\ Wrote /\ ~last.ambient /\ last.scope = 3 /\ last.rel = <<"b">>
    /\ HasSegment(2) /\ scopes[2].namespaceProp.seg = "a"
    /\ ~HasSegment(3)
    /\ last.path = <<"a", "b">>
    /\ ReadNow(<<"a", "b">>, "count", Num(0)) = Num(1)

----------------------------------------------------------------------------
(* C10 *)

\* C10: a provider that declares a root container, when no ancestor provider
\* has established one, binds itself and all its descendants to that
\* container, whatever the ancestors that declare none (with or without
\* namespace segments).
OwnRootBinds ==
    \A i \in Providers :
        DeclaresRoot(i) /\ (\A j \in Ancestors(i) : ~DeclaresRoot(j))
            => \A k \in {i} \cup Descendants(i) :
                  scopes[k].namespaceAtom = scopes[i].rootAtomProp

----------------------------------------------------------------------------
(* C11 *)

\* provider j declared a root container and is bound to it
Established(j) == DeclaresRoot(j) /\ scopes[j].namespaceAtom = scopes[j].rootAtomProp

\* C11: a provider that declares a root container while some ancestor
\* provider has already established one ignores its own and inherits the
\* nearest ancestor's container unchanged, for every nesting of ancestors
\* (with or without namespace segments).
InheritedRootKept ==
    \A i \in Providers :
        DeclaresRoot(i) /\ (\E j \in Ancestors(i) : Established(j))
            => scopes[i].namespaceAtom = scopes[scopes[i].parent].namespaceAtom

----------------------------------------------------------------------------
(* C12 *)

\* some segment of path p is missing from the container of atom, or holds a
\* value that is not a container
BrokenPath(atom, p) ==
    \E n \in 1..Len(p) :
        ~IsContainer(TreeAt(heap, ObjRef(store[atom]), SubSeq(p, 1, n)))

\* C12: read(P, K, d) never fails; when a segment of P is missing from the
\* container or holds a non-container value (number, string, boolean, null),
\* the rest of the subtree is treated as empty and the read returns d, for
\* every key K.
TotalRead ==
    \A atom \in Atoms, p \in ReadPaths, k \in ReadKeys, d \in ReadDefaults :
        BrokenPath(atom, p) => Read(heap, store[atom], p, k, d) = d

\* the same, for the paths no segment of which holds a string
TotalReadNoString ==
    \A atom \in Atoms, p \in ReadPaths, k \in ReadKeys, d \in ReadDefaults :
        /\ BrokenPath(atom, p)
        /\ \A n \in 1..Len(p) :
              TreeAt(heap, ObjRef(store[atom]), SubSeq(p, 1, n)).t # "str"
        => Read(heap, store[atom], p, k, d) = d

----------------------------------------------------------------------------
(* C13 *)

\* the name the write stores under the node at the first n segments of its path
NextName(n) == IF n < Len(last.path) THEN last.path[n + 1] ELSE last.key

\* C13: write(P, K, V) never fails; when a segment of P holds a
\* non-container value, that segment is replaced by a fresh container node
\* that contains only the rest of the written path (nothing carried over
\* from the old value), and the write then completes with V stored at
\* (P, K).
TotalWrite ==
    Wrote =>
        /\ After(LastLoc) = last.value
        /\ \A n \in 1..Len(last.path) :
              LET seg == SubSeq(last.path, 1, n)
              IN  Before(seg) # Undef /\ ~IsContainer(Before(seg))
                    => /\ IsNew(After(seg))
                       /\ DOMAIN heap[After(seg).n] = {NextName(n)}

\* the same, when the non-container value is not a string
TotalWriteNoString ==
    Wrote =>
        /\ After(LastLoc) = last.value
        /\ \A n \in 1..Len(last.path) :
              LET seg == SubSeq(last.path, 1, n)
              IN  Before(seg) # Undef /\ ~IsContainer(Before(seg))
                     /\ Before(seg).t # "str"
                    => /\ IsNew(After(seg))
                       /\ DOMAIN heap[After(seg).n] = {NextName(n)}

\* a write through a segment that held the number 0 or null
TotalWriteNoStringReached ==
    /\ Wrote /\ Len(last.path) >= 1
    /\ Before(SubSeq(last.path, 1, 1)).t \in {"num", "null"}

----------------------------------------------------------------------------
(* C14 *)

\* C14: read(P, K, d) on any container leaves the root and every node
\* unchanged; it creates no intermediate nodes for missing segments and does
\* not store the default d.
PureRead ==
    [][render'.n # render.n =>
          /\ store' = store
          /\ heap' = heap
          /\ LET atom == hook'.accessor.storageAtom
                  loc  == Append(hook'.accessor.path, hook'.accessor.key)
              IN  \A n \in 1..Len(loc) :
                     TreeAt(heap', ObjRef(store'[atom]), SubSeq(loc, 1, n))
                       = TreeAt(heap, ObjRef(store[atom]), SubSeq(loc, 1, n))]_vars

\* a read that returned the default below a segment the container has not
PureReadWitness ==
    /\ render.n > 0
    /\ hook.accessor.path # <<>>
    /\ TreeAt(heap, ObjRef(store[hook.accessor.storageAtom]),
              <<hook.accessor.path[1]>>) = Undef
    /\ render.value = hook.def

----------------------------------------------------------------------------
(* C15 *)

\* a step that is a write w2 at the location of the write w1 before it
SameLocationAgain ==
    /\ last.kind # "" /\ heap' # heap
    /\ <<last'.atom, last'.path, last'.key>> = <<last.atom, last.path, last.key>>

\* what w2 leaves, w1 being the write before it
SecondWriteWins ==
    /\ TreeAt(heap', ObjRef(store'[last'.atom]), Append(last'.path, last'.key))
          = last'.value
    /\ last'.kind # "value" =>
          /\ last'.observed = last.value
          /\ last'.value = NewValue(last'.kind, last'.arg, Undef, last.value)

\* C15: writes issued in sequence take effect in issue order; after write w1
\* then w2 to the same (P, K) the stored value is the one of w2, an updater
\* in w2 observes the value stored by w1, and no write is lost.
WriteOrder ==
    [][SameLocationAgain => SecondWriteWins]_vars

\* the same, for a w1 that stored another value than null
WriteOrderNonNull ==
    [][SameLocationAgain /\ last.value # Null => SecondWriteWins]_vars

----------------------------------------------------------------------------
(* C16 *)

\* a step that renders the tree again with the props and the arguments of
\* the render before
SameTreeAgain ==
    /\ render.n >= 1 /\ render'.n = render.n + 1
    /\ PropsOf(scopes') = PropsOf(scopes)
    /\ <<hook'.ambient, hook'.rel, hook'.key, hook'.def>>
          = <<hook.ambient, hook.rel, hook.key, hook.def>>

\* C16: re-rendering the provider tree with the same root container (which
\* re-creates providers and accessors) leaves the container unchanged, and
\* every accessor reads the same value for its (P, K) after the re-render
\* as before it.
SurvivesRerender ==
    [][SameTreeAgain =>
          /\ heap' = heap /\ store' = store
          /\ scopes' = scopes
          /\ <<hook'.accessor.storageAtom, hook'.accessor.path, hook'.accessor.key>>
                = <<hook.accessor.storageAtom, hook.accessor.path, hook.accessor.key>>
          /\ render'.value = ReadAtom(hook.accessor).val]_vars

\* a counter that was incremented reads 1 in a new instance of the
\* component, under a provider that was given a rootAtom
SurvivesRerenderWitness ==
    /\ render.n >= 2 /\ render.remount
    /\ Len(scopes) >= 2 /\ scopes[2].namespaceAtom = "A"
    /\ last.kind = "updater" /\ last.atom = "A"
    /\ hook.def = Num(0) /\ render.value = Num(1)
    /\ hook.accessor.id > 2

----------------------------------------------------------------------------
(* C17 *)

RECURSIVE FoldReducer(_, _)
FoldReducer(as, state) ==
    IF as = <<>> THEN state
    ELSE FoldReducer(Tail(as), counterReducer(heap, state, Head(as)))

Dispatched == chain.fs # <<>> /\ chain.kind = "dispatch"

\* what one dispatch stores
DispatchStores ==
    last.kind = "dispatch" =>
        /\ last.observed = ReadBefore(last.path, last.key, last.def)
        /\ last.value = counterReducer(prev.heap, last.observed, last.arg)
        /\ After(LastLoc) = last.value

\* C17: dispatch(action) at (P, K) stores reducer(read(P, K, initialState),
\* action) at (P, K); after a sequence of actions a1..an from a
\* never-written (P, K) the value read is the left fold of the reducer over
\* the actions starting at initialState.
ReducerFold ==
    /\ DispatchStores
    /\ Dispatched =>
          ReadNow(last.path, last.key, chain.def) = FoldReducer(chain.fs, chain.def)

\* C17 (amended): the same, the sequence starting from a location P ++ [K]
\* such that no write targeted it, a location below it or a location above
\* it; two increments and one decrement from { value: 0 } give { value: 1 }.
ReducerFoldUntouched ==
    /\ DispatchStores
    /\ Dispatched /\ chain.untouched =>
          /\ ReadNow(last.path, last.key, chain.def) = FoldReducer(chain.fs, chain.def)
          /\ chain.fs = <<"INCREMENT", "INCREMENT", "DECREMENT">>
                => ReadNow(last.path, last.key, chain.def)
                      = CounterState(Num(chain.def.n + 1))

\* two increments and one decrement of a reducer counter never written
ReducerFoldWitness ==
    /\ Dispatched /\ chain.untouched
    /\ chain.fs = <<"INCREMENT", "INCREMENT", "DECREMENT">>
    /\ chain.def = CounterState(Num(0))
    /\ ReadNow(last.path, last.key, Null) = CounterState(Num(1))

----------------------------------------------------------------------------
(* C18 *)

\* what the hook h binds its accessor to under the contexts ctxs: the
\* container, the segments of the path, the key and the default
BindingOf(h, ctxs) ==
    LET context == ctxs[h.scope]
        ns == IF h.ambient THEN NoNamespace ELSE useStateNamespace(context, h.rel)
    IN  <<context.namespaceAtom, ResolvePath(ns, context), h.key, h.def>>

\* a step that renders the component again, its hooks kept
RendersAgain ==
    render.n >= 1 /\ render'.n = render.n + 1 /\ ~render'.remount

\* C18: across renders in which the path has the same segments in the same
\* order (even as a freshly allocated array) and the key, default value and
\* container binding are unchanged, useStateNamespaceAtom keeps the same
\* accessor binding; the binding is re-derived only when the path content,
\* the key, the default or the container changes.
StructuralMemo ==
    [][RendersAgain =>
          /\ BindingOf(hook', scopes') = BindingOf(hook, scopes)
                <=> hook'.accessor.id = hook.accessor.id
          /\ <<hook'.accessor.storageAtom, hook'.accessor.path,
               hook'.accessor.key, hook'.accessor.defaultValue>>
                = BindingOf(hook', scopes')]_vars

\* the second render of a component that calls useStateNamespace(["b"]): the
\* array is a new one, the accessor is the one of the first render
StructuralMemoWitness ==
    /\ render.n = 2 /\ ~render.remount
    /\ ~hook.ambient /\ hook.rel = <<"b">>
    /\ hook.ids = 4 /\ hook.ref.id = 1 /\ hook.accessor.id = 2
    /\ hook.accessor.path = scopes[hook.scope].namespace \o <<"b">>

----------------------------------------------------------------------------
(* C19 *)

\* what an accessor addressed at the location of the last write reads under
\* provider k
ReadUnder(k) ==
    Read(heap, store[scopes[k].namespaceAtom], last.path, last.key, last.def)

\* C19: all accessors under one outermost provider operate on one shared
\* container, so a write through one accessor at (P, K) is read by every
\* other accessor addressed at (P, K) in that tree, also when no provider
\* declared a root container.
SharedContainer ==
    Wrote /\ last.scope \in Providers
        => \A k \in Providers : ReadUnder(k) = last.value

\* the same, for the trees whose outermost provider established the
\* container or in which no provider declared one
SharedContainerOutermostRoot ==
    /\ Wrote /\ last.scope \in Providers
    /\ Established(2) \/ \A i \in Providers : ~DeclaresRoot(i)
    => \A k \in Providers : ReadUnder(k) = last.value

\* the same, when no provider declared a container
SharedContainerNoRoot ==
    /\ Wrote /\ last.scope \in Providers
    /\ \A i \in Providers : ~DeclaresRoot(i)
    => \A k \in Providers : ReadUnder(k) = last.value

----------------------------------------------------------------------------
(* usePersistedAtom: the iterative write that copies along the path *)

\* getNestedValue(obj, path)
RECURSIVE getNestedValue(_, _, _)
getNestedValue(h, current, path) ==
    IF path = <<>> THEN current
    ELSE IF ~Truthy(current) \/ ~IsContainer(current) THEN Undef
    ELSE getNestedValue(h, Prop(h, current, Head(path)), Tail(path))

\* current[name] = v: the object current refers to is changed in place
SetProp(h, current, name, v) ==
    IF IsObj(current) /\ current.n # 0
    THEN [h EXCEPT ![current.n] = Assign(@, name, v)]
    ELSE h

\* a loop that walks into the node the container holds and assigns there,
\* creating a node only where the container holds none
RECURSIVE AlongPathNoCopy(_, _, _, _)
AlongPathNoCopy(h, current, path, newValue) ==
    IF Len(path) = 1 THEN SetProp(h, current, path[1], newValue)
    ELSE LET key  == Head(path)
             old  == Prop(h, current, key)
             c    == IF IsObj(old) /\ old.n # 0
                     THEN [heap |-> h, val |-> old]
                     ELSE Alloc(h, Spread(h, Or(old, TempEmpty)))
         IN  AlongPathNoCopy(SetProp(c.heap, current, key, c.val), c.val,
                             Tail(path), newValue)

\* a loop that puts an empty node at every step: current[key] = {}
RECURSIVE AlongPathNoSpread(_, _, _, _)
AlongPathNoSpread(h, current, path, newValue) ==
    IF Len(path) = 1 THEN SetProp(h, current, path[1], newValue)
    ELSE LET key == Head(path)
             c   == Alloc(h, EmptyObj)
         IN  AlongPathNoSpread(SetProp(c.heap, current, key, c.val), c.val,
                               Tail(path), newValue)

\* the loop over path[0 .. length - 2] and the final assignment:
\* current[key] = { ...(current[key] || {}) }; current = current[key]
RECURSIVE AlongPath(_, _, _, _)
AlongPath(h, current, path, newValue) ==
    IF Len(path) = 1 THEN SetProp(h, current, path[1], newValue)
    ELSE LET key == Head(path)
             c   == Alloc(h, Spread(h, Or(Prop(h, current, key), TempEmpty)))
         IN  AlongPath(SetProp(c.heap, current, key, c.val), c.val,
                       Tail(path), newValue)

\* the function handed to set(rootAtom, ...): result = { ...state }, the
\* loop, return result
CopyAlongPath(h, state, path, newValue) ==
    LET result == Alloc(h, Spread(h, state))
    IN  [heap |-> AlongPath(result.heap, result.val, path, newValue),
         val  |-> result.val]

\* The setter of usePersistedAtom(key, defaultValue) under providers whose
\* segments make up namespace; rootAtom is the one container of that module.
WritePersisted(namespace, key, defaultValue, kind, arg, v) ==
    LET path         == Append(namespace, key)
        state        == ObjRef(store["root"])
        currentValue == Coalesce(getNestedValue(heap, state, path), defaultValue)
        newValue     == IF kind = "updater" THEN ApplyUpdater(arg, currentValue)
                        ELSE v
        r == CopyAlongPath(heap, state, path, newValue)
    IN  /\ Len(heap) + Len(path) <= MaxHeap
        /\ kind = "updater" /\ arg = "inc" =>
              /\ currentValue.t = "num"
              /\ newValue.n \in 0..MaxNum
        /\ heap' = r.heap
        /\ store' = [store EXCEPT !["root"] = r.val.n]
        /\ prev' = [heap |-> heap, store |-> store]
        /\ last' = [by |-> "usePersistedAtom", given |-> NoNamespace,
                    scope |-> 0, rel |-> <<>>, ambient |-> TRUE,
                    atom |-> "root", path |-> namespace, key |-> key,
                    def |-> IF kind = "value" THEN Undef ELSE defaultValue,
                    kind |-> kind, arg |-> arg,
                    observed |-> IF kind = "value" THEN Undef ELSE currentValue,
                    value |-> newValue]
        /\ written' = written \cup {<<"root", path>>}
        /\ chain' = NoChain
        /\ UNCHANGED <<scopes, hook, render, memo>>

\* setter(value) of usePersistedAtom(key, d)
SetPersisted ==
    \E p \in Paths, key \in Keys, d \in Defaults, v \in Values :
        WritePersisted(p, key, d, "value", "", v)

\* setter(c => c + 1) or setter(c => c) of usePersistedAtom(key, d)
UpdatePersisted ==
    \E p \in Paths, key \in Keys, d \in Defaults, f \in Updaters :
        WritePersisted(p, key, d, "updater", f, Undef)

\* both writes on the same containers
NextWrites == SetValue \/ SetUpdater \/ Dispatch \/ SetPersisted \/ UpdatePersisted

SpecWrites == Init /\ [][NextWrites]_vars

----------------------------------------------------------------------------
(* C20 *)

\* the nodes reachable from the root the written container had before the
\* write
SnapshotNodes == NodesBelow(prev.heap, ObjRef(prev.store[last.atom]), <<>>)

\* C20: a write never mutates the pre-write container: the root taken
\* before write(P, K, V) and every node reachable from it hold the same
\* content after the write, for the recursive setDeepValue and for the
\* iterative copy-along-path write alike.
NoMutation ==
    Wrote =>
        /\ Len(heap) >= Len(prev.heap)
        /\ \A nd \in SnapshotNodes : heap[nd[2].n] = prev.heap[nd[2].n]
        /\ NodesBelow(heap, ObjRef(prev.store[last.atom]), <<>>) = SnapshotNodes

\* an iterative write into a namespace whose node the container already
\* held: the old node still has what it had, the new container has the
\* written value next to it
NoMutationWitness ==
    /\ Wrote /\ last.by = "usePersistedAtom"
    /\ last.path = <<"a">> /\ last.key = "a"
    /\ IsObj(Before(<<"a">>)) /\ Before(<<"a", "count">>) = Num(2)
    /\ Before(<<"a", "a">>) = Undef
    /\ After(<<"a", "a">>) = last.value /\ last.value # Undef
    /\ After(<<"a", "count">>) = Num(2)
    /\ After(<<"a">>) # Before(<<"a">>)

\* the same for the recursive write
NoMutationRecursiveWitness ==
    /\ Wrote /\ last.by = "setDeepValue"
    /\ last.path = <<"a">> /\ last.key = "a"
    /\ IsObj(Before(<<"a">>)) /\ Before(<<"a", "count">>) = Num(2)
    /\ After(<<"a", "a">>) = last.value /\ last.value # Undef
    /\ After(<<"a">>) # Before(<<"a">>)

----------------------------------------------------------------------------
(* C21 *)

\* the write stored what the location already held
SameValueAgain ==
    Wrote /\ Before(LastLoc) = last.value /\ last.value # Undef

\* C21: every write replaces the root with a newly created object and each
\* node along P with a newly created copy, also when V equals the value
\* already stored: the root reference after a write is never the root
\* reference before it.
FreshRoot ==
    Wrote =>
        /\ store[last.atom] # prev.store[last.atom]
        /\ store[last.atom] > Len(prev.heap)
        /\ \A n \in 0..Len(last.path) :
              LET node == After(SubSeq(last.path, 1, n))
              IN  /\ IsObj(node) /\ node.n > Len(prev.heap)
                  /\ node # Before(SubSeq(last.path, 1, n))
        /\ \A a \in Atoms \ {last.atom} : store[a] = prev.store[a]

\* a write of the value the nested location already held; root and node are
\* new objects all the same
FreshRootWitness ==
    /\ SameValueAgain /\ last.path = <<"a">> /\ last.key = "count"
    /\ last.value = Num(2) /\ IsObj(Before(<<"a">>))
    /\ After(<<>>) # Before(<<>>) /\ After(<<"a">>) # Before(<<"a">>)
    /\ After(LastLoc) = Num(2)

----------------------------------------------------------------------------
(* C22 *)

\* provider i was given neither a namespace segment nor a root container
PassThrough(i) == ~HasSegment(i) /\ ~DeclaresRoot(i)

\* C22: a provider given neither a namespace segment nor a root container is
\* a pure pass-through: its descendants see exactly the parent's path and the
\* parent's container.
PassThroughScope ==
    \A i \in Providers :
        PassThrough(i) =>
            LET parentContext == scopes[scopes[i].parent]
            IN  /\ scopes[i].namespace = parentContext.namespace
                /\ scopes[i].namespaceAtom = parentContext.namespaceAtom
                /\ \A rel \in RelPaths, k \in Keys, d \in Defaults :
                      Read(heap, store[scopes[i].namespaceAtom],
                           scopes[i].namespace \o rel, k, d)
                      = Read(heap, store[parentContext.namespaceAtom],
                             parentContext.namespace \o rel, k, d)

\* a pass-through provider inside a provider that declared container A and
\* the segment "a": the increment made under the inner one is in A at "a"
PassThroughScopeWitness ==
    /\ Len(scopes) = 3 /\ PassThrough(3)
    /\ scopes[2].rootAtomProp = "A" /\ scopes[2].namespaceProp = NamespaceProp("a")
    /\ scopes[3].namespace = <<"a">> /\ scopes[3].namespaceAtom = "A"
    /\ Wrote /\ last.scope = 3 /\ last.ambient
    /\ Read(heap, store["A"], <<"a">>, "count", Num(0)) = Num(1)

----------------------------------------------------------------------------
(* C23 *)

\* the context value provider i provides when it is rendered now
ContextOf(i) ==
    StateNamespaceProvider(scopes[scopes[i].parent], scopes[i].parent,
                           scopes[i].namespaceProp, scopes[i].rootAtomProp)

\* C23: no write changes any scope's resolved path or container binding:
\* the binding is decided by the provider nesting alone and is the same
\* before and after every write.
BindingFixed ==
    [][heap' # heap =>
          /\ scopes' = scopes
          /\ \A i \in Providers :
                /\ ContextOf(i) = scopes[i]
                /\ ContextOf(i)' = scopes[i]]_vars

\* a write through a provider bound to the container A it declared
BindingFixedWitness ==
    /\ Wrote /\ last.scope = 2 /\ last.atom = "A"
    /\ scopes[2].rootAtomProp = "A" /\ scopes[2].namespaceAtom = "A"
    /\ heap[store["A"]] # EmptyObj
    /\ ContextOf(2) = scopes[2]

----------------------------------------------------------------------------
(* C24 *)

\* this step is the render that useAtom scheduled
Scheduled == render.again /\ render'.n = render.n /\ hook'.ids # hook.ids

\* C24: for a component that builds its namespace object anew on each render
\* and passes it to useStateNamespaceAtom, rendering settles: the first
\* render schedules none, and the render that a change of the arguments made
\* useAtom schedule keeps the accessor and schedules no further one.
NoRenderLoop ==
    [][/\ ~hook.mounted /\ hook'.mounted => ~render'.again
       /\ Scheduled => /\ ~render'.again
                       /\ hook'.accessor = hook.accessor
                       /\ hook'.ref = hook.ref]_vars

\* the render scheduled after the component changed its key, its namespace
\* built anew by useStateNamespace(["b"]): the accessor is kept and nothing
\* more is scheduled
NoRenderLoopWitness ==
    /\ hook.mounted /\ ~hook.ambient /\ hook.rel = <<"b">>
    /\ render.n = 2 /\ ~render.again /\ ~render.remount
    /\ hook.ids = 6 /\ hook.accessor.id = 4 /\ hook.ref.id = 1
    /\ hook.accessor.path = <<"b">>

----------------------------------------------------------------------------
(* useMemoEqual over the renders of a component *)

\* what a component may pass as value: null, undefined, or one of these
\* arrays (two arrays with the same elements are two objects)
MemoValues ==
    {Null, Undef, StringArray(1, <<>>), StringArray(2, <<>>),
     StringArray(3, <<"a">>), StringArray(4, <<"a">>),
     StringArray(5, <<"b">>), StringArray(6, <<"a", "b">>)}

\* what it may pass as checkEqual: undefined ("") or compareStringArrays
CheckEquals == {"", "compareStringArrays"}

IsArray(v) == "segs" \in DOMAIN v

\* v1 === v2
Identical(v1, v2) ==
    IF IsArray(v1) /\ IsArray(v2) THEN v1.id = v2.id ELSE v1 = v2

\* v != null
NotNull(v) == IsArray(v) \/ ~IsNullish(v)

\* a useMemoEqual that never assigns ref.current
useMemoEqualKeepsFirst(current, value, checkEqual) == current

\* a useMemoEqual that calls checkEqual on the elements only: identity of
\* the arrays is not looked at, null and undefined are taken as equal
useMemoEqualNullsEqual(current, value, checkEqual) ==
    LET isEqual ==
            \/ Identical(value, current)
            \/ ~NotNull(value) /\ ~NotNull(current)
            \/ /\ NotNull(value) /\ NotNull(current)
               /\ checkEqual = "compareStringArrays"
               /\ compareStringArrays(value.segs, current.segs)
    IN  IF isEqual THEN current ELSE value

\* useMemoEqual(value, checkEqual) in a render after the first, current
\* being ref.current: the new ref.current, which is what the hook returns
useMemoEqualWith(current, value, checkEqual) ==
    LET isEqual ==
            \/ Identical(value, current)
            \/ /\ NotNull(value) /\ NotNull(current)
               /\ checkEqual = "compareStringArrays"
               /\ compareStringArrays(value.segs, current.segs)
    IN  IF isEqual THEN current ELSE value

\* the first render: useRef(value) makes ref.current the value
MemoMount ==
    /\ ~memo.mounted
    /\ \E value \in MemoValues, checkEqual \in CheckEquals :
          memo' = [mounted |-> TRUE, checkEqual |-> checkEqual, value |-> value,
                   before |-> value, ref |-> value, ret |-> value]
    /\ UNCHANGED <<heap, store, scopes, prev, last, written, chain, hook, render>>

\* a later render: useRef returns the ref of the first render
MemoRender ==
    /\ memo.mounted
    /\ \E value \in MemoValues, checkEqual \in CheckEquals :
          LET r == useMemoEqualWith(memo.ref, value, checkEqual)
          IN  memo' = [mounted |-> TRUE, checkEqual |-> checkEqual,
                       value |-> value, before |-> memo.ref, ref |-> r, ret |-> r]
    /\ UNCHANGED <<heap, store, scopes, prev, last, written, chain, hook, render>>

NextMemo == MemoMount \/ MemoRender

SpecMemo == Init /\ [][NextMemo]_vars

----------------------------------------------------------------------------
(* C25 *)

\* checkEqual was passed and holds of the two values, both non-null
EqualUnder(checkEqual, v1, v2) ==
    /\ IsArray(v1) /\ IsArray(v2)
    /\ checkEqual = "compareStringArrays"
    /\ v1.segs = v2.segs

\* C25: the value useMemoEqual returns in a render is equal to the value
\* passed in that render (identical, or equal under checkEqual); it returns
\* the previously retained reference exactly when the new value is identical
\* to it or both are non-null and checkEqual holds; otherwise it retains and
\* returns the new value; without checkEqual only identity counts.
MemoEqualRenders ==
    memo.mounted =>
        LET kept == \/ Identical(memo.value, memo.before)
                    \/ EqualUnder(memo.checkEqual, memo.value, memo.before)
        IN  /\ \/ Identical(memo.ret, memo.value)
               \/ EqualUnder(memo.checkEqual, memo.ret, memo.value)
            /\ Identical(memo.ret, memo.before) <=> kept
            /\ ~kept => Identical(memo.ret, memo.value)
            /\ Identical(memo.ref, memo.ret)
            /\ memo.checkEqual = "" =>
                  (Identical(memo.ret, memo.before)
                     <=> Identical(memo.value, memo.before))

\* a render that passes another array with the same elements and
\* compareStringArrays: the retained array is returned
MemoEqualRendersWitness ==
    /\ memo.mounted /\ memo.checkEqual = "compareStringArrays"
    /\ memo.before = StringArray(3, <<"a">>) /\ memo.value = StringArray(4, <<"a">>)
    /\ memo.ret = StringArray(3, <<"a">>)

\* the same render without checkEqual: the new array is retained and returned
MemoEqualIdentityWitness ==
    /\ memo.mounted /\ memo.checkEqual = ""
    /\ memo.before = StringArray(3, <<"a">>) /\ memo.value = StringArray(4, <<"a">>)
    /\ memo.ret = StringArray(4, <<"a">>)

\* null after undefined: neither identical nor compared, the new one is kept
MemoEqualNullWitness ==
    /\ memo.mounted /\ memo.checkEqual = "compareStringArrays"
    /\ memo.before = Undef /\ memo.value = Null /\ memo.ret = Null

----------------------------------------------------------------------------
(* C26 *)

\* the location the last write has to address: namespace.path from the
\* root when a namespace object was given, the segments of the providers
\* around the calling scope when it was null
Addressed ==
    IF last.given.isNull THEN SegmentsOf(last.scope) ELSE last.given.path

\* C26: useStateNamespaceAtom called with a non-null namespace object (an
\* empty path included) addresses namespace.path as an absolute path from
\* the root, whatever the ambient path of the calling scope; called with
\* null it addresses the ambient path of the calling scope.
ExplicitIsAbsolute ==
    Wrote =>
        /\ last.path = Addressed
        /\ After(Append(Addressed, last.key)) = last.value
        /\ Read(heap, store[scopes[last.scope].namespaceAtom],
                Addressed, last.key, Null) = last.value

\* under a provider with the segment "a", an accessor given { path: [] }
\* increments "count" of the root, not of "a"
ExplicitIsAbsoluteWitness ==
    /\ Wrote /\ ~last.given.isNull /\ last.given.path = <<>>
    /\ scopes[last.scope].namespace = <<"a">>
    /\ After(<<"count">>) = Num(1)
    /\ After(<<"a", "count">>) = Undef

\* under the same provider, an accessor given null increments "count" of "a"
AmbientWitness ==
    /\ Wrote /\ last.given.isNull
    /\ scopes[last.scope].namespace = <<"a">>
    /\ After(<<"a", "count">>) = Num(1)
    /\ After(<<"count">>) = Undef

----------------------------------------------------------------------------
(* C27 *)

\* C27: a write at (P, K1) leaves read(P, K2, d) unchanged for every key K2
\* different from K1 at the same path P.
KeysIndependent ==
    Wrote => \A k2 \in ReadKeys \ {last.key}, d \in ReadDefaults :
                ReadNow(last.path, k2, d) = ReadBefore(last.path, k2, d)

\* the same, for the keys that are not properties of a string
KeysIndependentWritten ==
    Wrote => \A k2 \in Keys \ {last.key}, d \in ReadDefaults :
                ReadNow(last.path, k2, d) = ReadBefore(last.path, k2, d)

\* the same, when the container held no string at P before the write
KeysIndependentNoString ==
    Wrote /\ Descend(prev.heap, ObjRef(prev.store[last.atom]), last.path).t # "str"
        => \A k2 \in ReadKeys \ {last.key}, d \in ReadDefaults :
              ReadNow(last.path, k2, d) = ReadBefore(last.path, k2, d)

----------------------------------------------------------------------------
(* C28 *)

\* the content of v: an object as the map of the contents of its
\* properties, anything else as itself
RECURSIVE Content(_, _)
Content(h, v) ==
    IF ~IsObj(v) THEN v
    ELSE IF v.n = 0 THEN EmptyObj
    ELSE [x \in DOMAIN h[v.n] |-> Content(h, h[v.n][x])]

\* the container after write(p, k, v) on the container with root `root`
Written(h, root, p, k, v) ==
    LET r == setDeepValue(h, root, p, k, v)
    IN  Content(r.heap, r.val)

\* the container after write(p2, k2, v2) and then the last write, both
\* starting from the container of before the last write
OtherOrder(p2, k2, v2) ==
    LET r == setDeepValue(prev.heap, ObjRef(prev.store[last.atom]), p2, k2, v2)
    IN  Written(r.heap, r.val, last.path, last.key, last.value)

\* C28: two writes of fixed values at locations P1 ++ [K1] and P2 ++ [K2],
\* neither location a prefix of the other, give structurally equal
\* containers in either order, from every starting container.
WritesCommute ==
    Wrote =>
        \A p2 \in Paths, k2 \in Keys :
            Unrelated(LastLoc, Append(p2, k2)) =>
                \A v2 \in Values :
                    Written(heap, ObjRef(store[last.atom]), p2, k2, v2)
                    = OtherOrder(p2, k2, v2)

\* the persisted counter under "a", a write of "x" at (<<"b">>, "a"): the
\* write of 0 at (<<"a">>, "a") after it or before it gives the container
\* with the three values
WritesCommuteWitness ==
    /\ Wrote /\ last.path = <<"b">> /\ last.key = "a" /\ last.value = Str("x")
    /\ Before(<<"a", "count">>) = Num(2)
    /\ LET c == OtherOrder(<<"a">>, "a", Num(0))
       IN  /\ c = Written(heap, ObjRef(store[last.atom]), <<"a">>, "a", Num(0))
           /\ c["a"]["count"] = Num(2) /\ c["a"]["a"] = Num(0)
           /\ c["b"]["a"] = Str("x")

----------------------------------------------------------------------------
(* C29 *)

\* the last write done again, from the container of before it, by the
\* recursive write and by the iterative one
Recursive ==
    setDeepValue(prev.heap, ObjRef(prev.store[last.atom]),
                 last.path, last.key, last.value)
Iterative ==
    CopyAlongPath(prev.heap, ObjRef(prev.store[last.atom]),
                  Append(last.path, last.key), last.value)

\* every node of the container r that is not on the route through the
\* written path is the object the container held there before the write
OffPathKept(r) ==
    \A nd \in NodesBelow(r.heap, r.val, <<>>) :
        ~IsPrefix(nd[1], last.path) =>
            /\ nd[2] = Before(nd[1])
            /\ r.heap[nd[2].n] = prev.heap[nd[2].n]

\* C29: the recursive write (setDeepValue) and the iterative
\* copy-along-path write produce structurally equal containers for every
\* container, path, key and value, and both keep every off-path subtree
\* reference-identical.
WritesAgree ==
    Wrote =>
        /\ Content(Recursive.heap, Recursive.val)
           = Content(Iterative.heap, Iterative.val)
        /\ Content(heap, ObjRef(store[last.atom]))
           = Content(Recursive.heap, Recursive.val)
        /\ OffPathKept(Recursive)
        /\ OffPathKept(Iterative)

\* a write next to the persisted counter, done by the iterative write: the
\* recursive one gives the same container, and the node of the counter is
\* the object it was
WritesAgreeWitness ==
    /\ Wrote /\ last.by = "usePersistedAtom"
    /\ last.path = <<"b">> /\ last.key = "count" /\ last.value = Num(0)
    /\ IsObj(Before(<<"a">>)) /\ After(<<"a">>) = Before(<<"a">>)
    /\ Content(Recursive.heap, Recursive.val)["b"]["count"] = Num(0)
    /\ Content(Iterative.heap, Iterative.val)["a"]["count"] = Num(2)
    /\ Recursive.val # Iterative.val

----------------------------------------------------------------------------
(* The variant in which every provider exposes a derived container *)

\* !parentContext.namespace.length && rootAtom
IsRootProvider(ctxs, i) ==
    Len(ctxs[ctxs[i].parent].namespace) = 0 /\ ctxs[i].rootAtomProp # ""

\* the namespace prop of provider i, "" when it is undefined or empty
SegmentProp(ctxs, i) ==
    IF ctxs[i].namespaceProp.given THEN ctxs[i].namespaceProp.seg ELSE ""

\* get(namespaceAtom) for the namespaceAtom of scope i: the default atom of
\* the context, the root atom, or the parent's state at [namespace]
RECURSIVE ScopedState(_, _, _, _)
ScopedState(h, st, ctxs, i) ==
    IF i = 1 THEN ObjRef(st["root"])
    ELSE IF IsRootProvider(ctxs, i) THEN ObjRef(st[ctxs[i].rootAtomProp])
    ELSE LET parentState == ScopedState(h, st, ctxs, ctxs[i].parent)
         IN  IF SegmentProp(ctxs, i) # ""
             THEN Coalesce(getNestedValue(h, parentState, <<SegmentProp(ctxs, i)>>),
                           TempEmpty)
             ELSE parentState

\* set(namespaceAtom, newValue) for the namespaceAtom of scope i: the
\* storage atom that is set in the end, and the object it is set to
RECURSIVE SetScoped(_, _, _, _, _)
SetScoped(h, st, ctxs, i, newValue) ==
    IF i = 1 THEN [heap |-> h, atom |-> "root", val |-> newValue]
    ELSE IF IsRootProvider(ctxs, i)
    THEN [heap |-> h, atom |-> ctxs[i].rootAtomProp, val |-> newValue]
    ELSE IF SegmentProp(ctxs, i) = ""
    THEN SetScoped(h, st, ctxs, ctxs[i].parent, newValue)
    ELSE LET prevState == ScopedState(h, st, ctxs, ctxs[i].parent)
             c == Alloc(h, Assign(Spread(h, prevState), SegmentProp(ctxs, i),
                                  newValue))
         IN  SetScoped(c.heap, st, ctxs, ctxs[i].parent, c.val)

\* current = current[segment] ?? {} for every segment of path
RECURSIVE DescendNullish(_, _, _)
DescendNullish(h, current, path) ==
    IF path = <<>> THEN current
    ELSE DescendNullish(h, Coalesce(Prop(h, current, Head(path)), TempEmpty),
                        Tail(path))

\* the loop over pathToValue and the final assignment:
\* currentObj[segment] = { ...(currentObj[segment] ?? {}) }
RECURSIVE AlongPathNullish(_, _, _, _, _)
AlongPathNullish(h, currentObj, pathToValue, key, newValue) ==
    IF pathToValue = <<>> THEN SetProp(h, currentObj, key, newValue)
    ELSE LET segment == Head(pathToValue)
             c == Alloc(h, Spread(h, Coalesce(Prop(h, currentObj, segment),
                                              TempEmpty)))
         IN  AlongPathNullish(SetProp(c.heap, currentObj, segment, c.val), c.val,
                              Tail(pathToValue), key, newValue)

\* namespace?.path ?? context.namespace
EffectivePath(ns, context) ==
    IF ns.isNull THEN context.namespace ELSE ns.path

\* The setter of useStateNamespaceAtom(ns, key, defaultValue) of this variant
\* under scopes[scope], called with the updater c => c + 1: the function
\* handed to set(namespaceAtom, ...) runs on the state of the scope's
\* derived container, whose write hands the result up to the storage atom.
WriteScoped(scope, ns, rel, ambient, key, defaultValue) ==
    LET pathToValue  == EffectivePath(ns, scopes[scope])
        state        == ScopedState(heap, store, scopes, scope)
        current      == DescendNullish(heap, state, pathToValue)
        currentValue == Coalesce(Prop(heap, current, key), defaultValue)
        newValue     == ApplyUpdater("inc", currentValue)
        result       == Alloc(heap, Spread(heap, state))
        h2           == AlongPathNullish(result.heap, result.val, pathToValue,
                                         key, newValue)
        r            == SetScoped(h2, store, scopes, scope, result.val)
    IN  /\ Len(r.heap) <= MaxHeap
        /\ currentValue.t = "num" /\ newValue.n \in 0..MaxNum
        /\ heap' = r.heap
        /\ store' = [store EXCEPT ![r.atom] = r.val.n]
        /\ prev' = [heap |-> heap, store |-> store]
        /\ last' = [by |-> "scoped", given |-> ns,
                    scope |-> scope, rel |-> rel, ambient |-> ambient,
                    atom |-> r.atom, path |-> pathToValue, key |-> key,
                    def |-> defaultValue, kind |-> "updater", arg |-> "inc",
                    observed |-> currentValue, value |-> newValue]
        /\ written' = written \cup {<<r.atom, Append(pathToValue, key)>>}
        /\ chain' = NoChain
        /\ UNCHANGED <<scopes, hook, render, memo>>

\* setter(c => c + 1) of useStateNamespaceAtom(null, "count", 0) or of
\* useStateNamespaceAtom(useStateNamespace(rel), "count", 0) under a scope
ScopedWrite ==
    \E scope \in 1..Len(scopes), rel \in RelPaths, ambient \in BOOLEAN :
        /\ ambient => rel = <<>>
        /\ WriteScoped(scope,
                       IF ambient THEN NoNamespace
                       ELSE useStateNamespace(scopes[scope], rel),
                       rel, ambient, "count", Num(0))

NextScoped == Mount \/ ScopedWrite

SpecScoped == InitScopes /\ [][NextScoped]_vars

----------------------------------------------------------------------------
(* C30 *)

\* what the debugger of the scope of the last write shows
Exposed == ScopedState(heap, store, scopes, last.scope)

\* C30: in the variant where each provider exposes a derived container
\* scoped to its own namespace, a value written from a scope with ambient
\* path P under key K is stored in the root container at exactly location
\* P ++ [K], so the container exposed to that scope holds the value directly
\* under K.
ScopedStoresAtAmbient ==
    Wrote /\ last.ambient =>
        /\ After(Append(SegmentsOf(last.scope), last.key)) = last.value
        /\ Prop(heap, Exposed, last.key) = last.value

\* the same, for the scopes whose ambient path is empty
ScopedStoresAtRoot ==
    Wrote /\ last.ambient /\ SegmentsOf(last.scope) = <<>> =>
        /\ After(<<last.key>>) = last.value
        /\ Prop(heap, Exposed, last.key) = last.value

====
